---- MODULE Spec2Model ----
(***************************************************************************)
(* Model of nixpkgs-index: the version index merge and the index file      *)
(* (index.py), the interval commit discovery (github.py) and the indexing  *)
(* run (cli.py).                                                           *)
(*                                                                         *)
(* Instants (Python datetime) are integers counted in hours.  A stored     *)
(* commit_timestamp is the isoformat() string of an instant; it is         *)
(* modelled as a fixed-width sequence of decimal digits and compared the   *)
(* way Python compares str: lexicographically.                             *)
(***************************************************************************)
EXTENDS Integers, Sequences, FiniteSets, TLC

VARIABLES
    pkgs,           \* Index.pkgs: package -> (version -> VersionEntry)
    before,         \* Index.pkgs as it was when the last update_version call began
    call,           \* arguments of the last update_version call
    ret,            \* value returned by the last update_version call
    applied,        \* every observation passed to update_version so far
    nupdates,       \* number of update_version calls made
    history,        \* the branch at the provider: the instants at which it has commits
    burst,          \* the instants at which the branch has a full page of commits
    step_interval,  \* discover_commits_at_intervals: argument step_interval
    since,          \* argument since (optional)
    until,          \* argument until (optional)
    max_steps,      \* argument max_steps (optional)
    pc,             \* position in discover_commits_at_intervals
    commits,        \* local commits, the returned list once pc = "done"
    start_time,     \* local start_time
    target_times,   \* local target_times
    step,           \* index of the next target time in the for loop
    head_requests,  \* requests made for the branch head
    window_requests,\* requests made for a window
    last_window,    \* the window of the last window request
    window_shas,    \* shas of the commits that window requests returned
    window_commit,  \* local commit of the for loop: what the last window gave
    lost,           \* steps whose request failed while the window held commits
    file,           \* the file at the output path
    output_ext,     \* suffix of the output path, lower case
    attributes,     \* config.pkgs flattened: the (package, attribute) pairs in loop order
    eval_config,    \* config.eval: record_store_paths and systems
    commit_index,   \* main: index of the commit of the for loop
    attr_index,     \* main: index of the next (package, attribute) pair
    skipped,        \* indexes of the commits whose fetch or checkout raised
    last_eval,      \* the last evaluate_attribute call and whether it gave a version
    evaluated,      \* the (commit, attribute pair) indexes evaluate_attribute was called for
    saves,          \* completed index.save calls of the run
    durable,        \* the file as the last completed save, or the start, left it
    dump,           \* Index.save: the text of data, built before the file is opened
    commit_updates, \* main: local commit_updates of the commit being processed
    accepted,       \* (package, version) -> update_version calls of this commit that returned True
    observed,       \* (package, version) -> update_version calls of this commit
    target,         \* validate_index: argument target (optional str)
    config_pkgs,    \* argument config: config.pkgs, package -> PackageConfig
    current_system, \* local current_system
    system_calls,   \* get_current_system calls made
    target_pkg,     \* local target_pkg
    target_ver,     \* local target_ver
    result,         \* local result: ValidationResult
    pkg_pos,        \* position of the loop over index.pkgs.items()
    ver_pos,        \* position of the loop over pkg_index.versions.items(), 0 before it
    inspected,      \* the (package, version) pairs whose validated_count += 1 ran
    checks,         \* StorePathValidator.validate calls made for the last inspected entry
    tests_run,      \* TestValidator.validate calls made for the last inspected entry
    raised,         \* the exception validate_index raised, if any
    exit_status,    \* exit status of the validate command, -1 while it runs
    phase           \* position in validate_index and in the validate command

indexVars == <<pkgs, before, call, ret, applied, nupdates>>

discoverVars == <<history, burst, step_interval, since, until, max_steps, pc,
                  commits, start_time, target_times, step, head_requests,
                  window_requests, last_window, window_shas, window_commit,
                  lost>>

driverVars == <<file, output_ext, attributes, eval_config, commit_index,
                attr_index, skipped, last_eval, evaluated, saves, durable, dump,
                commit_updates, accepted, observed>>

validateVars == <<target, config_pkgs, current_system, system_calls,
                  target_pkg, target_ver, result, pkg_pos, ver_pos, inspected,
                  checks, tests_run, raised, exit_status, phase>>

vars == <<pkgs, before, call, ret, applied, nupdates, history, burst,
          step_interval, since, until, max_steps, pc, commits, start_time,
          target_times, step, head_requests, window_requests, last_window,
          window_shas, window_commit, lost, file, output_ext, attributes,
          eval_config, commit_index, attr_index, skipped, last_eval,
          evaluated, saves, durable, dump, commit_updates, accepted,
          observed, target, config_pkgs, current_system, system_calls,
          target_pkg, target_ver, result, pkg_pos, ver_pos, inspected,
          checks, tests_run, raised, exit_status, phase>>

----------------------------------------------------------------------------
(* Bounds                                                                  *)

MaxUpdates == 2
MaxKeyUpdates == 3
FirstInstant == 9
NumCommits == 5
MaxInstant == 6
MaxHistory == 2
MaxStepsArg == 2
RunLength == 2
MaxEntries == 2

Packages == {"p1", "p2"}
Versions == {"24.5.0", "24.10.0"}
RunPaths == {"a"}
Systems == {"s1", "s2"}
Paths == {"a", "b"}

----------------------------------------------------------------------------
(* Values                                                                  *)

\* Optional[Dict[str, str]]: present = FALSE is Python None.
EmptyMap == [s \in {} |-> "a"]

NoStorePaths == [present |-> FALSE, map |-> EmptyMap]

SomeStorePaths(m) == [present |-> TRUE, map |-> m]

\* The mappings used as inputs: no system, the first system with either
\* path, and both systems; every branch of the store path comparison has a
\* pair of them (equal, other system set, same systems and another path).
StorePathMaps ==
    {m \in UNION {[S -> Paths] : S \in SUBSET Systems} :
        "s2" \in DOMAIN m => ("s1" \in DOMAIN m /\ m["s1"] = "a" /\ m["s2"] = "a")}

StorePathValues == {NoStorePaths} \cup {SomeStorePaths(m) : m \in StorePathMaps}

\* datetime.isoformat(): zero padded, fixed width (two digits here).
isoformat(t) == <<(t \div 10) % 10, t % 10>>

\* GitHubCommit(sha, timestamp).  The commits the caller can observe: two
\* commits per instant, so that distinct commits may carry one timestamp.
GitHubCommit(sha, timestamp) == [sha |-> sha, timestamp |-> timestamp]

KnownCommits ==
    {GitHubCommit(c, FirstInstant + (c \div 2)) : c \in 0 .. (NumCommits - 1)}

\* Python str comparison a > b: the first differing position decides,
\* a proper prefix is the smaller string.
StrGe(a, b) ==
    \/ a = b
    \/ \E i \in 1 .. Len(a) :
          /\ \A j \in 1 .. (i - 1) : j <= Len(b) /\ a[j] = b[j]
          /\ (i > Len(b) \/ a[i] > b[i])

StrGt(a, b) ==
    \E i \in 1 .. Len(a) :
       /\ \A j \in 1 .. (i - 1) : j <= Len(b) /\ a[j] = b[j]
       /\ (i > Len(b) \/ a[i] > b[i])

VersionEntryNoPaths(commit_sha, timestamp, store_paths) ==
    [nixpkgs_commit |-> commit_sha,
     commit_timestamp |-> timestamp,
     store_paths |-> NoStorePaths]

VersionEntry(commit_sha, timestamp, store_paths) ==
    [nixpkgs_commit |-> commit_sha,
     commit_timestamp |-> timestamp,
     store_paths |-> store_paths]

----------------------------------------------------------------------------
(* github.py: target times, query window, provider                         *)

\* Optional[int] / Optional[datetime]: present = FALSE is Python None.
NoInstant == [present |-> FALSE, value |-> 0]

SomeInstant(t) == [present |-> TRUE, value |-> t]

\* timedelta(hours=1), the unit of time of the model
WindowSize == 1

DefaultMaxSteps == 1000

PerPage == 100

TimeWindow(start, end) == [start |-> start, end |-> end]

BreaksAtBound(k, t0, interval, bound) ==
    bound.present /\ (t0 - interval * k) <= bound.value

\* the step of the for loop at which it breaks: target_time < since
BreaksAt(k, t0, interval, bound) ==
    bound.present /\ (t0 - interval * k) < bound.value

\* how many times the for loop appends before it breaks or ends
num_target_times(t0, interval, n, bound) ==
    IF \E k \in 1 .. n : BreaksAt(k, t0, interval, bound)
    THEN (CHOOSE k \in 1 .. n :
             /\ BreaksAt(k, t0, interval, bound)
             /\ \A j \in 1 .. (k - 1) : ~BreaksAt(j, t0, interval, bound)) - 1
    ELSE IF n > 0 THEN n ELSE 0

calculate_target_times_unreversed(t0, interval, n, bound) ==
    LET len == num_target_times(t0, interval, n, bound)
    IN [i \in 1 .. len |-> t0 - interval * i]

\* step k appends t0 - interval * k; the list is reversed, oldest first
calculate_target_times(t0, interval, n, bound) ==
    LET len == num_target_times(t0, interval, n, bound)
    IN [i \in 1 .. len |-> t0 - interval * (len - i + 1)]

create_query_window(target_time) ==
    TimeWindow(target_time - WindowSize, target_time + WindowSize)

Reverse(seq) == [i \in 1 .. Len(seq) |-> seq[Len(seq) - i + 1]]

StatusOK == 200

\* any status other than 200; 403 is the answer to an exhausted rate limit
FailureStatuses == {403}

\* Optional[GitHubCommit]
NoCommit == [present |-> FALSE, commit |-> GitHubCommit(0, 0)]

SomeCommit(c) == [present |-> TRUE, commit |-> c]

\* The branch has one commit at each instant of history, and PerPage commits
\* at the instants of burst.  <<t, k>> is the k-th commit made at instant t.
CommitCount(t) == IF t \in burst THEN PerPage ELSE 1

CommitOf(c) == GitHubCommit(c[1] * PerPage + (c[2] - 1), c[1])

RECURSIVE CountIn(_)
\* the number of commits the branch has at the instants ts
CountIn(ts) ==
    IF ts = {} THEN 0
    ELSE LET t == CHOOSE x \in ts : TRUE
         IN CommitCount(t) + CountIn(ts \ {t})

\* the n-th newest commit among those made at the instants ts
NthNewest(ts, n) ==
    LET t == CHOOSE x \in ts :
                 /\ CountIn({u \in ts : u > x}) < n
                 /\ n <= CountIn({u \in ts : u >= x})
    IN <<t, CommitCount(t) - (n - 1 - CountIn({u \in ts : u > t}))>>

\* GET /commits?since=&until=&per_page=100: the commits of the branch dated
\* within [since, until], newest first, first page only
list_commits(w) ==
    LET inside == {t \in history : w.start <= t /\ t <= w.end}
        len == IF CountIn(inside) < PerPage THEN CountIn(inside) ELSE PerPage
    IN [i \in 1 .. len |-> CommitOf(NthNewest(inside, i))]

\* GET /commits/{branch}: the newest commit of the branch
branch_head == CommitOf(NthNewest(history, 1))

get_oldest_commit_in_window_any_status(status, w) ==
    LET commits_data == list_commits(w)
    IN IF Len(commits_data) = 0 THEN NoCommit
       ELSE SomeCommit(commits_data[Len(commits_data)])

\* _get_oldest_commit_in_window: None unless the status is 200 and the page
\* holds a commit; then the last commit of the page
get_oldest_commit_in_window(status, w) ==
    LET commits_data == list_commits(w)
    IN IF status # StatusOK THEN NoCommit
       ELSE IF Len(commits_data) = 0 THEN NoCommit
       ELSE SomeCommit(commits_data[Len(commits_data)])

effective_max_steps_off_by_one(ms) ==
    IF ms.present THEN ms.value ELSE DefaultMaxSteps + 1

\* if max_steps is None: max_steps = 1000
effective_max_steps(ms) ==
    IF ms.present THEN ms.value ELSE DefaultMaxSteps

----------------------------------------------------------------------------
(* Index._should_update_based_on_store_paths                               *)

should_update_always(old_store_paths, new_store_paths) == TRUE

should_update_same_systems_only(old_store_paths, new_store_paths) ==
    IF ~old_store_paths.present THEN TRUE
    ELSE IF ~new_store_paths.present THEN TRUE
    ELSE IF old_store_paths.map = new_store_paths.map THEN FALSE
    ELSE IF DOMAIN old_store_paths.map # DOMAIN new_store_paths.map THEN FALSE
    ELSE TRUE

should_update_based_on_store_paths(old_store_paths, new_store_paths) ==
    IF ~old_store_paths.present THEN TRUE
    ELSE IF ~new_store_paths.present THEN TRUE
    ELSE IF old_store_paths.map = new_store_paths.map THEN FALSE
    ELSE IF DOMAIN old_store_paths.map # DOMAIN new_store_paths.map THEN TRUE
    ELSE TRUE

----------------------------------------------------------------------------
(* Index.update_version: the new pkgs mapping and the returned bool        *)

HasEntry(ps, package, version) ==
    package \in DOMAIN ps /\ version \in DOMAIN ps[package]

\* self.pkgs[package] = PackageIndex() done for every call
SetEntryFresh(ps, package, version, entry) ==
    [p \in (DOMAIN ps) \cup {package} |->
        IF p = package THEN [v \in {version} |-> entry] ELSE ps[p]]

\* self.pkgs[package].versions[version] = entry
SetEntry(ps, package, version, entry) ==
    LET old == IF package \in DOMAIN ps THEN ps[package] ELSE <<>>
        new == [v \in (DOMAIN old) \cup {version} |->
                    IF v = version THEN entry ELSE old[v]]
    IN [p \in (DOMAIN ps) \cup {package} |->
            IF p = package THEN new ELSE ps[p]]

update_version_not_older(ps, package, version, commit_sha, timestamp, store_paths) ==
    IF ~HasEntry(ps, package, version)
    THEN [pkgs |-> SetEntry(ps, package, version,
                            VersionEntry(commit_sha, timestamp, store_paths)),
          ret |-> TRUE]
    ELSE LET existing_entry == ps[package][version]
         IN IF StrGe(timestamp, existing_entry.commit_timestamp)
            THEN IF should_update_based_on_store_paths(
                        existing_entry.store_paths, store_paths)
                 THEN [pkgs |-> SetEntry(ps, package, version,
                                  VersionEntry(commit_sha, timestamp, store_paths)),
                       ret |-> TRUE]
                 ELSE [pkgs |-> ps, ret |-> FALSE]
            ELSE [pkgs |-> ps, ret |-> FALSE]

update_version_unguarded(ps, package, version, commit_sha, timestamp, store_paths) ==
    IF ~HasEntry(ps, package, version)
    THEN [pkgs |-> SetEntry(ps, package, version,
                            VersionEntry(commit_sha, timestamp, store_paths)),
          ret |-> TRUE]
    ELSE LET existing_entry == ps[package][version]
         IN IF should_update_based_on_store_paths(
                        existing_entry.store_paths, store_paths)
            THEN [pkgs |-> SetEntry(ps, package, version,
                             VersionEntry(commit_sha, timestamp, store_paths)),
                  ret |-> TRUE]
            ELSE [pkgs |-> ps, ret |-> FALSE]

update_version(ps, package, version, commit_sha, timestamp, store_paths) ==
    IF ~HasEntry(ps, package, version)
    THEN [pkgs |-> SetEntry(ps, package, version,
                            VersionEntry(commit_sha, timestamp, store_paths)),
          ret |-> TRUE]
    ELSE LET existing_entry == ps[package][version]
         IN IF StrGt(timestamp, existing_entry.commit_timestamp)
            THEN IF should_update_based_on_store_paths(
                        existing_entry.store_paths, store_paths)
                 THEN [pkgs |-> SetEntry(ps, package, version,
                                  VersionEntry(commit_sha, timestamp, store_paths)),
                       ret |-> TRUE]
                 ELSE [pkgs |-> ps, ret |-> FALSE]
            ELSE [pkgs |-> ps, ret |-> FALSE]

----------------------------------------------------------------------------
(* Index.save / Index.load: the persisted form                             *)

\* the version strings of the model as str: their characters, dots left out
version_text(v) ==
    CASE v = "24.5.0" -> <<2, 4, 5, 0>>
      [] v = "24.9.0" -> <<2, 4, 9, 0>>
      [] v = "24.10.0" -> <<2, 4, 1, 0, 0>>

\* packaging.version.parse on a dotted release number: its release tuple
version_parse(v) ==
    CASE v = "24.5.0" -> <<24, 5, 0>>
      [] v = "24.9.0" -> <<24, 9, 0>>
      [] v = "24.10.0" -> <<24, 10, 0>>

\* a < b for two tuples of numbers, the way Python orders tuples
TupleLess(a, b) ==
    \E i \in 1 .. Len(b) :
       /\ \A j \in 1 .. (i - 1) : j <= Len(a) /\ a[j] = b[j]
       /\ (i > Len(a) \/ a[i] < b[i])

\* the package names of the model in str order
PackageOrder == <<"p1", "p2">>

NameLess(p, q) ==
    \E i \in 1 .. Len(PackageOrder) : \E j \in 1 .. Len(PackageOrder) :
       i < j /\ PackageOrder[i] = p /\ PackageOrder[j] = q

\* sorted(self.pkgs.keys())
sorted_names(names) ==
    [i \in 1 .. Cardinality(names) |->
        CHOOSE p \in names : Cardinality({q \in names : NameLess(q, p)}) = i - 1]

\* sorted(pkg_index.versions.keys(), key=version.parse, reverse=True)
sorted_versions(versions) ==
    [i \in 1 .. Cardinality(versions) |->
        CHOOSE v \in versions :
            Cardinality({u \in versions :
                TupleLess(version_parse(v), version_parse(u))}) = i - 1]

\* asdict(entry), store_paths deleted when it is None
entry_dict(entry) ==
    IF ~entry.store_paths.present
    THEN [nixpkgs_commit |-> entry.nixpkgs_commit,
          commit_timestamp |-> entry.commit_timestamp]
    ELSE [nixpkgs_commit |-> entry.nixpkgs_commit,
          commit_timestamp |-> entry.commit_timestamp,
          store_paths |-> entry.store_paths.map]

\* Index.save, for ver in sorted_versions: data["pkgs"][pkg_name], the
\* entries of one package in the order of its sorted versions
package_data(pkg_name, versions) ==
    [name |-> pkg_name,
     versions |->
        [j \in 1 .. Cardinality(DOMAIN versions) |->
            CHOOSE item \in {[ver |-> ver, entry |-> entry_dict(versions[ver])] :
                               ver \in {sorted_versions(DOMAIN versions)[j]}} :
                TRUE]]

\* Index.save, for pkg_name in sorted(self.pkgs.keys()): data["pkgs"], an
\* ordered mapping of ordered mappings
save_data(ps) ==
    [i \in 1 .. Cardinality(DOMAIN ps) |->
        CHOOSE item \in {package_data(pkg_name, ps[pkg_name]) :
                           pkg_name \in {sorted_names(DOMAIN ps)[i]}} : TRUE]

\* The text of a file is its syntax and its lines: the line of the top-level
\* key, one line per package, one per version with its entry and, in json,
\* the closing line.
TopLine == [kind |-> "top", name |-> "pkgs", entry |-> <<>>]

PkgLine(name) == [kind |-> "pkg", name |-> name, entry |-> <<>>]

VerLine(ver, entry) == [kind |-> "ver", name |-> ver, entry |-> entry]

EndLine == [kind |-> "end", name |-> "", entry |-> <<>>]

RECURSIVE DataLines(_)
DataLines(data) ==
    IF data = <<>> THEN <<>>
    ELSE <<PkgLine(Head(data).name)>>
         \o [j \in 1 .. Len(Head(data).versions) |->
                VerLine(Head(data).versions[j].ver, Head(data).versions[j].entry)]
         \o DataLines(Tail(data))

\* yaml.dump(data, f, default_flow_style=False, sort_keys=False)
yaml_dump(data) ==
    [format |-> "yml", lines |-> <<TopLine>> \o DataLines(data)]

\* json.dump(data, f, indent=2)
json_dump(data) ==
    [format |-> "json", lines |-> <<TopLine>> \o DataLines(data) \o <<EndLine>>]

\* a json document is whole when it is closed
Closed(text) ==
    Len(text.lines) > 0 /\ text.lines[Len(text.lines)] = EndLine

\* the package line above line i
PkgAbove(lines, i) ==
    LET above == {k \in 1 .. (i - 1) : lines[k].kind = "pkg"}
    IN lines[CHOOSE k \in above : \A m \in above : m <= k].name

\* the mapping under the key pkgs that the lines spell; a key written twice
\* keeps its last value
pkgs_data(lines) ==
    LET names == {lines[k].name : k \in {k \in 1 .. Len(lines) : lines[k].kind = "pkg"}}
        at(p) == {k \in 1 .. Len(lines) :
                     lines[k].kind = "ver" /\ PkgAbove(lines, k) = p}
    IN [p \in names |->
          [v \in {lines[k].name : k \in at(p)} |->
              lines[CHOOSE k \in at(p) :
                       /\ lines[k].name = v
                       /\ \A m \in at(p) : lines[m].name = v => m <= k].entry]]

\* json.load(f): fails on text that is not one whole json document
json_load(text) ==
    IF text.format = "json" /\ Closed(text)
    THEN [ok |-> TRUE, data |-> pkgs_data(text.lines)]
    ELSE [ok |-> FALSE, data |-> <<>>]

\* yaml.safe_load(f): block mappings up to any line are a document, an empty
\* file is None, and a json document is a yaml flow mapping
yaml_load(text) ==
    IF text.format = "yml" \/ Closed(text)
    THEN [ok |-> TRUE, data |-> pkgs_data(text.lines)]
    ELSE [ok |-> FALSE, data |-> <<>>]

\* format: Optional[Literal["yml", "json"]] = None
NoFormat == "None"

\* Index.load: format auto-detected from the file extension if not specified
detect_format(ext) ==
    IF ext = ".json" THEN "json" ELSE "yml"

\* the file at a path
NoFile == [exists |-> FALSE, text |-> [format |-> "yml", lines |-> <<>>]]

FileOf(text) == [exists |-> TRUE, text |-> text]

\* ParsedVersionEntry / VersionEntry of a loaded mapping
entry_of_dict(version_data) ==
    VersionEntry(version_data.nixpkgs_commit, version_data.commit_timestamp,
                 IF "store_paths" \in DOMAIN version_data
                 THEN SomeStorePaths(version_data.store_paths)
                 ELSE NoStorePaths)

\* Index.load(path, format): ok = FALSE when the parser raises
Index_load(f, ext, format) ==
    IF ~f.exists THEN [ok |-> TRUE, pkgs |-> <<>>]
    ELSE LET fmt == IF format = NoFormat THEN detect_format(ext) ELSE format
             raw == IF fmt = "json" THEN json_load(f.text) ELSE yaml_load(f.text)
         IN IF ~raw.ok THEN [ok |-> FALSE, pkgs |-> <<>>]
            ELSE [ok |-> TRUE,
                  pkgs |-> [p \in DOMAIN raw.data |->
                              [v \in DOMAIN raw.data[p] |->
                                  entry_of_dict(raw.data[p][v])]]]

\* def save(self, path, format="yml")
DefaultSaveFormat == "yml"

\* Index.save(path, format): data is built once, then dumped; the text
\* written to the file
Index_save(ps, format) ==
    CHOOSE text \in {IF format = "json" THEN json_dump(data)
                                        ELSE yaml_dump(data) :
                        data \in {save_data(ps)}} : TRUE

Observation(package, version, commit_sha, timestamp, store_paths) ==
    [package |-> package, version |-> version, commit_sha |-> commit_sha,
     timestamp |-> timestamp, store_paths |-> store_paths]

NoCall == Observation("", "", 0, isoformat(0), NoStorePaths)

\* Index(): pkgs is an empty mapping.
InitIndex ==
    /\ pkgs = <<>>
    /\ before = <<>>
    /\ call = NoCall
    /\ ret = FALSE
    /\ applied = {}
    /\ nupdates = 0

\* the last evaluate_attribute call: commit, attribute pair, truth of its result
NoEval == [commit |-> 0, attribute |-> 0, version |-> FALSE]

\* Optional[str]: present = FALSE is Python None.  A str is the sequence of
\* its pieces: names, version strings and the character "@".
NoText == [present |-> FALSE, text |-> <<>>]

SomeText(t) == [present |-> TRUE, text |-> t]

\* ValidationResult()
NewValidationResult ==
    [failures |-> <<>>, total_packages |-> 0, total_versions |-> 0,
     validated_count |-> 0]

NoError == "none"

StillRunning == -1

\* validate_index is not called
ValidateIdle ==
    /\ target = NoText
    /\ config_pkgs = <<>>
    /\ current_system = ""
    /\ system_calls = 0
    /\ target_pkg = NoText
    /\ target_ver = NoText
    /\ result = NewValidationResult
    /\ pkg_pos = 1
    /\ ver_pos = 0
    /\ inspected = {}
    /\ checks = <<>>
    /\ tests_run = <<>>
    /\ raised = NoError
    /\ exit_status = StillRunning
    /\ phase = "idle"

\* no indexing run is under way
DriverIdle ==
    /\ file = NoFile
    /\ output_ext = ".yaml"
    /\ attributes = <<>>
    /\ eval_config = [record_store_paths |-> FALSE, systems |-> {}]
    /\ commit_index = 1
    /\ attr_index = 1
    /\ skipped = {}
    /\ last_eval = NoEval
    /\ evaluated = {}
    /\ saves = 0
    /\ durable = NoFile
    /\ dump = NoFile.text
    /\ commit_updates = 0
    /\ accepted = <<>>
    /\ observed = <<>>

\* no discovery is running
DiscoverIdle ==
    /\ history = {}
    /\ burst = {}
    /\ step_interval = 1
    /\ since = NoInstant
    /\ until = NoInstant
    /\ max_steps = NoInstant
    /\ pc = "idle"
    /\ commits = <<>>
    /\ start_time = 0
    /\ target_times = <<>>
    /\ step = 1
    /\ head_requests = 0
    /\ window_requests = 0
    /\ last_window = TimeWindow(0, 0)
    /\ window_shas = {}
    /\ window_commit = NoCommit
    /\ lost = {}

DoUpdate(package, version, commit_sha, timestamp, store_paths) ==
    LET r == update_version(pkgs, package, version, commit_sha, timestamp, store_paths)
    IN /\ pkgs' = r.pkgs
       /\ before' = pkgs
       /\ ret' = r.ret
       /\ call' = Observation(package, version, commit_sha, timestamp, store_paths)
       /\ applied' = applied \cup
              {Observation(package, version, commit_sha, timestamp, store_paths)}
       /\ nupdates' = nupdates + 1
       /\ UNCHANGED <<discoverVars, driverVars, validateVars>>

\* index.update_version(package, version, commit_sha, timestamp, store_paths)
UpdateVersion ==
    /\ nupdates < MaxUpdates
    /\ \E package \in Packages, version \in Versions, commit \in KnownCommits,
          store_paths \in StorePathValues :
          DoUpdate(package, version, commit.sha, isoformat(commit.timestamp),
                   store_paths)

\* the same operation, called repeatedly for one (package, version)
UpdateOneKey ==
    /\ nupdates < MaxKeyUpdates
    /\ \E commit \in KnownCommits, store_paths \in StorePathValues :
          DoUpdate("p1", "24.5.0", commit.sha, isoformat(commit.timestamp),
                   store_paths)

Init == InitIndex /\ DiscoverIdle /\ DriverIdle /\ ValidateIdle

Next == UpdateVersion

Spec == Init /\ [][Next]_vars

NextOneKey == UpdateOneKey

SpecOneKey == Init /\ [][NextOneKey]_vars

----------------------------------------------------------------------------
(* GitHubClient.discover_commits_at_intervals                              *)

Instants == 0 .. MaxInstant

\* step intervals in hours: below, equal to and above the span of a window
Intervals == {1, 2, 3}

OptionalInstants == {NoInstant} \cup {SomeInstant(t) : t \in Instants}

\* the state in which discover_commits_at_intervals is entered
DiscoverEntry ==
    /\ InitIndex
    /\ DriverIdle
    /\ ValidateIdle
    /\ history \in {h \in SUBSET Instants : Cardinality(h) <= MaxHistory}
    /\ step_interval \in Intervals
    /\ since \in OptionalInstants
    /\ until \in {NoInstant, SomeInstant(MaxInstant - 1), SomeInstant(MaxInstant)}
    /\ pc = "start"
    /\ commits = <<>>
    /\ start_time = 0
    /\ target_times = <<>>
    /\ step = 1
    /\ head_requests = 0
    /\ window_requests = 0
    /\ last_window = TimeWindow(0, 0)
    /\ window_shas = {}
    /\ window_commit = NoCommit
    /\ lost = {}

\* a branch with one commit at each of its instants, any max_steps
InitDiscover ==
    /\ DiscoverEntry
    /\ burst = {}
    /\ max_steps \in {NoInstant} \cup {SomeInstant(n) : n \in 0 .. MaxStepsArg}

\* a branch that also has instants with a full page of commits
InitBurst ==
    /\ DiscoverEntry
    /\ burst \in SUBSET history
    /\ max_steps \in {SomeInstant(n) : n \in 0 .. MaxStepsArg}

\* the arguments and the provider's branch stay as they are; no index is touched
DiscoverFrame ==
    UNCHANGED <<indexVars, driverVars, validateVars, history, burst,
                step_interval, since, until, max_steps>>

\* the code from the computation of start_time to the for loop
EnterLoop(t0, found) ==
    /\ commits' = found
    /\ start_time' = t0
    /\ target_times' = calculate_target_times(t0, step_interval,
                           effective_max_steps(max_steps), since)
    /\ step' = 1
    /\ pc' = "loop"

\* if until: start_time = until
StartFromUntil ==
    /\ DiscoverFrame
    /\ pc = "start"
    /\ until.present
    /\ EnterLoop(until.value, <<>>)
    /\ UNCHANGED <<head_requests, window_requests, last_window, window_shas,
                   window_commit, lost>>

\* else: head = self.get_branch_head(branch), status 200
StartFromHead ==
    /\ DiscoverFrame
    /\ pc = "start"
    /\ ~until.present
    /\ history # {}
    /\ head_requests' = head_requests + 1
    /\ EnterLoop(branch_head.timestamp, <<branch_head>>)
    /\ UNCHANGED <<window_requests, last_window, window_shas, window_commit, lost>>

\* get_branch_head: status other than 200 raises GitHubAPIError
HeadRequestFails ==
    /\ DiscoverFrame
    /\ pc = "start"
    /\ ~until.present
    /\ head_requests' = head_requests + 1
    /\ pc' = "error"
    /\ UNCHANGED <<commits, start_time, target_times, step, window_requests,
                   last_window, window_shas, window_commit, lost>>

\* one iteration of the for loop, the window request answered with status
LoopBody(status) ==
    /\ pc = "loop"
    /\ step <= Len(target_times)
    /\ LET window == create_query_window(target_times[step])
           commit == get_oldest_commit_in_window(status, window)
       IN /\ last_window' = window
          /\ window_commit' = commit
          /\ IF commit.present
             THEN /\ commits' = Append(commits, commit.commit)
                  /\ window_shas' = window_shas \cup {commit.commit.sha}
             ELSE UNCHANGED <<commits, window_shas>>
          /\ lost' = IF status # StatusOK /\ Len(list_commits(window)) > 0
                     THEN lost \cup {step} ELSE lost
    /\ window_requests' = window_requests + 1
    /\ step' = step + 1
    /\ UNCHANGED <<pc, start_time, target_times, head_requests>>

\* the window request answered with 200
QueryWindow ==
    /\ DiscoverFrame
    /\ LoopBody(StatusOK)

\* the window request answered with another status
QueryWindowFails ==
    /\ DiscoverFrame
    /\ \E status \in FailureStatuses : LoopBody(status)

\* commits.reverse(); return commits
DiscoverReturn ==
    /\ DiscoverFrame
    /\ pc = "loop"
    /\ step > Len(target_times)
    /\ commits' = Reverse(commits)
    /\ pc' = "done"
    /\ UNCHANGED <<start_time, target_times, step, head_requests,
                   window_requests, last_window, window_shas, window_commit, lost>>

NextDiscover ==
    \/ StartFromUntil
    \/ StartFromHead
    \/ HeadRequestFails
    \/ QueryWindow
    \/ QueryWindowFails
    \/ DiscoverReturn

SpecDiscover == InitDiscover /\ [][NextDiscover]_vars

SpecBurst == InitBurst /\ [][NextDiscover]_vars

----------------------------------------------------------------------------
(* cli.py main: the indexing run over the discovered commits               *)

\* --output paths end in one of these suffixes
Extensions == {".json", ".yaml"}

\* config.pkgs: two packages with one attribute each, the later name first
AttributeConfigs ==
    {<<[pkg |-> "p2", attribute |-> "a1"], [pkg |-> "p1", attribute |-> "a2"]>>}

\* config.pkgs: one package with two attributes
SharedAttributeConfigs ==
    {<<[pkg |-> "p1", attribute |-> "a1"], [pkg |-> "p1", attribute |-> "a2"]>>}

\* config.eval: store paths not recorded, recorded for no system, for one
EvalConfigs ==
    {[record_store_paths |-> FALSE, systems |-> {}],
     [record_store_paths |-> TRUE, systems |-> {}],
     [record_store_paths |-> TRUE, systems |-> {"s1"}]}

\* the commits discover_commits_at_intervals returned, oldest first
RunCommits(n) == [k \in 1 .. n |-> GitHubCommit(k, k)]

\* the index an earlier run left: one entry of a commit older than this run's
EarlierIndex ==
    SetEntry(<<>>, "p1", "24.9.0", VersionEntry(0, isoformat(0), NoStorePaths))

\* the file at the output path when the run starts: none, or what an earlier
\* run saved there
EarlierFiles == {NoFile, FileOf(Index_save(EarlierIndex, DefaultSaveFormat))}

\* main after the discovery, for a configuration drawn from configs
DriverStart(configs) ==
    /\ InitIndex
    /\ ValidateIdle
    /\ history = {}
    /\ burst = {}
    /\ step_interval = 1
    /\ since = NoInstant
    /\ until = NoInstant
    /\ max_steps = NoInstant
    /\ start_time = 0
    /\ target_times = <<>>
    /\ step = 1
    /\ head_requests = 0
    /\ window_requests = 0
    /\ last_window = TimeWindow(0, 0)
    /\ window_shas = {}
    /\ window_commit = NoCommit
    /\ lost = {}
    /\ pc = "discovered"
    /\ commits \in {RunCommits(n) : n \in 0 .. RunLength}
    /\ file \in EarlierFiles
    /\ output_ext \in Extensions
    /\ attributes \in configs
    /\ eval_config \in EvalConfigs
    /\ commit_index = 1
    /\ attr_index = 1
    /\ skipped = {}
    /\ last_eval = NoEval
    /\ evaluated = {}
    /\ saves = 0
    /\ durable = file
    /\ dump = NoFile.text
    /\ commit_updates = 0
    /\ accepted = <<>>
    /\ observed = <<>>

InitDriver == DriverStart(AttributeConfigs)

\* a run whose configuration gives one package two attributes
InitCommit == DriverStart(SharedAttributeConfigs)

\* what a run never assigns: the discovery's state, the update bookkeeping
\* of the index alone, the configuration and the output path
DriverFrame ==
    UNCHANGED <<before, call, ret, applied, nupdates, history, burst,
                step_interval, since, until, max_steps, commits, start_time,
                target_times, step, head_requests, window_requests,
                last_window, window_shas, window_commit, lost, output_ext,
                attributes, eval_config, validateVars>>

\* if not commits: return
NothingDiscovered ==
    /\ DriverFrame
    /\ pc = "discovered"
    /\ commits = <<>>
    /\ pc' = "returned"
    /\ UNCHANGED <<pkgs, file, commit_index, attr_index, skipped, last_eval,
                   evaluated, saves, durable, dump,
                   commit_updates, accepted, observed>>

\* index = Index.load(output_path)
LoadIndex ==
    /\ DriverFrame
    /\ pc = "discovered"
    /\ commits # <<>>
    /\ LET loaded == Index_load(file, output_ext, NoFormat)
       IN loaded.ok /\ pkgs' = loaded.pkgs
    /\ pc' = "commit"
    /\ UNCHANGED <<file, commit_index, attr_index, skipped, last_eval,
                   evaluated, saves, durable, dump,
                   commit_updates, accepted, observed>>

\* Index.load raises: the run ends with the exception
LoadIndexRaises ==
    /\ DriverFrame
    /\ pc = "discovered"
    /\ commits # <<>>
    /\ ~Index_load(file, output_ext, NoFormat).ok
    /\ pc' = "raised"
    /\ UNCHANGED <<pkgs, file, commit_index, attr_index, skipped, last_eval,
                   evaluated, saves, durable, dump,
                   commit_updates, accepted, observed>>

\* a driver without the except clause: the exception ends the run
FetchRaisesAborts ==
    /\ DriverFrame
    /\ pc = "commit"
    /\ commit_index <= Len(commits)
    /\ skipped' = skipped \cup {commit_index}
    /\ pc' = "raised"
    /\ UNCHANGED <<pkgs, file, commit_index, attr_index, last_eval, evaluated,
                   saves, durable, dump,
                   commit_updates, accepted, observed>>

\* repo.fetch_and_checkout_commit raises (fetch fails or times out, checkout
\* fails): except Exception: continue
FetchRaises ==
    /\ DriverFrame
    /\ pc = "commit"
    /\ commit_index <= Len(commits)
    /\ skipped' = skipped \cup {commit_index}
    /\ commit_index' = commit_index + 1
    /\ UNCHANGED <<pkgs, pc, file, attr_index, last_eval, evaluated, saves,
                   durable, dump,
                   commit_updates, accepted, observed>>

\* repo.fetch_and_checkout_commit returns
FetchAndCheckout ==
    /\ DriverFrame
    /\ pc = "commit"
    /\ commit_index <= Len(commits)
    /\ attr_index' = 1
    /\ commit_updates' = 0
    /\ accepted' = <<>>
    /\ observed' = <<>>
    /\ pc' = "evaluate"
    /\ UNCHANGED <<pkgs, file, commit_index, skipped, last_eval, evaluated,
                   saves, durable, dump>>

\* evaluate_attribute: None on a non-zero exit, a timeout or an exception,
\* else the stripped output, which may be the empty string
EvaluateResults == {[present |-> FALSE, value |-> ""]}
                   \cup {[present |-> TRUE, value |-> v] : v \in Versions \cup {""}}

\* if version:
Truthy(version) == version.present /\ version.value # ""

\* store_paths of one attribute: None unless record_store_paths; else the
\* systems whose evaluate_attribute_store_path gave a path, with that path
StorePathResults ==
    IF ~eval_config.record_store_paths THEN {NoStorePaths}
    ELSE {SomeStorePaths(m) :
            m \in UNION {[got -> RunPaths] : got \in SUBSET eval_config.systems}}

\* one attribute whose evaluate_attribute gives no version: nothing is updated
EvaluateNothing ==
    /\ DriverFrame
    /\ pc = "evaluate"
    /\ attr_index <= Len(attributes)
    /\ \E version \in EvaluateResults :
          /\ ~Truthy(version)
          /\ last_eval' = [commit |-> commit_index, attribute |-> attr_index,
                           version |-> FALSE]
    /\ evaluated' = evaluated \cup {<<commit_index, attr_index>>}
    /\ attr_index' = attr_index + 1
    /\ UNCHANGED <<pkgs, pc, file, commit_index, skipped, saves,
                   durable, dump,
                   commit_updates, accepted, observed>>

\* one more update counted for a (package, version) of this commit
Counted(counts, key) ==
    [k \in (DOMAIN counts) \cup {key} |->
        (IF k \in DOMAIN counts THEN counts[k] ELSE 0)
        + (IF k = key THEN 1 ELSE 0)]

\* one attribute whose evaluate_attribute gives a version: store paths are
\* collected and index.update_version is called
EvaluateAndUpdate ==
    /\ DriverFrame
    /\ pc = "evaluate"
    /\ attr_index <= Len(attributes)
    /\ \E version \in EvaluateResults, store_paths \in StorePathResults :
          /\ Truthy(version)
          /\ \E updated \in {update_version(pkgs, attributes[attr_index].pkg,
                                  version.value, commits[commit_index].sha,
                                  isoformat(commits[commit_index].timestamp),
                                  store_paths)} :
                /\ pkgs' = updated.pkgs
                /\ commit_updates' =
                      IF updated.ret THEN commit_updates + 1 ELSE commit_updates
                /\ accepted' =
                      IF updated.ret
                      THEN Counted(accepted,
                                   <<attributes[attr_index].pkg, version.value>>)
                      ELSE accepted
          /\ observed' = Counted(observed,
                                  <<attributes[attr_index].pkg, version.value>>)
          /\ last_eval' = [commit |-> commit_index, attribute |-> attr_index,
                           version |-> TRUE]
    /\ evaluated' = evaluated \cup {<<commit_index, attr_index>>}
    /\ attr_index' = attr_index + 1
    /\ UNCHANGED <<pc, file, commit_index, skipped, saves, durable, dump>>

\* a driver that goes on to the next commit without index.save
SaveSkipped ==
    /\ DriverFrame
    /\ pc = "evaluate"
    /\ attr_index > Len(attributes)
    /\ commit_index' = commit_index + 1
    /\ pc' = "commit"
    /\ UNCHANGED <<pkgs, file, attr_index, skipped, last_eval, evaluated,
                   saves, durable, dump,
                   commit_updates, accepted, observed>>

\* index.save(output_path): data is built, then open(path, "w") creates the file or empties it
SaveOpens ==
    /\ DriverFrame
    /\ pc = "evaluate"
    /\ attr_index > Len(attributes)
    /\ dump' = Index_save(pkgs, DefaultSaveFormat)
    /\ file' = FileOf([format |-> DefaultSaveFormat, lines |-> <<>>])
    /\ pc' = "write"
    /\ UNCHANGED <<pkgs, commit_index, attr_index, skipped, last_eval,
                   evaluated, saves, durable,
                   commit_updates, accepted, observed>>

\* yaml.dump(data, f): the buffer is flushed when it is full, so part of the
\* text is in the file before the rest
SaveFlushes ==
    /\ DriverFrame
    /\ pc = "write"
    /\ \E n \in 1 .. (Len(dump.lines) - 1) :
          file' = FileOf([format |-> dump.format,
                          lines |-> SubSeq(dump.lines, 1, n)])
    /\ pc' = "flushed"
    /\ UNCHANGED <<pkgs, commit_index, attr_index, skipped, last_eval,
                   evaluated, saves, durable, dump,
                   commit_updates, accepted, observed>>

\* the with block ends: the whole text is in the file; the for loop goes on
SaveCloses ==
    /\ DriverFrame
    /\ pc \in {"write", "flushed"}
    /\ file' = FileOf(dump)
    /\ durable' = file'
    /\ saves' = saves + 1
    /\ commit_index' = commit_index + 1
    /\ pc' = "commit"
    /\ UNCHANGED <<pkgs, attr_index, skipped, last_eval, evaluated, dump,
                   commit_updates, accepted, observed>>

\* the for loop over the commits ends
RunCompletes ==
    /\ DriverFrame
    /\ pc = "commit"
    /\ commit_index > Len(commits)
    /\ pc' = "complete"
    /\ UNCHANGED <<pkgs, file, commit_index, attr_index, skipped, last_eval,
                   evaluated, saves, durable, dump,
                   commit_updates, accepted, observed>>

NextDriver ==
    \/ NothingDiscovered
    \/ LoadIndex
    \/ LoadIndexRaises
    \/ FetchRaises
    \/ FetchAndCheckout
    \/ EvaluateNothing
    \/ EvaluateAndUpdate
    \/ SaveOpens
    \/ SaveFlushes
    \/ SaveCloses
    \/ RunCompletes

SpecDriver == InitDriver /\ [][NextDriver]_vars

SpecCommit == InitCommit /\ [][NextDriver]_vars

\* main is one thread that always takes its next step: every subprocess call
\* of a step ends, by its exit or by its timeout
SpecDriverFair == InitDriver /\ [][NextDriver]_vars /\ WF_vars(NextDriver)

----------------------------------------------------------------------------
(* Properties of Index.update_version                                      *)

\* datetime.fromisoformat on a stored timestamp: the instant it denotes.
InstantOf(timestamp) == timestamp[1] * 10 + timestamp[2]

Called == nupdates > 0

HadEntry == Called /\ HasEntry(before, call.package, call.version)

Stored == before[call.package][call.version]

Newer == InstantOf(call.timestamp) > InstantOf(Stored.commit_timestamp)

EntryIs(e, o) ==
    /\ e.nixpkgs_commit = o.commit_sha
    /\ e.commit_timestamp = o.timestamp
    /\ e.store_paths = o.store_paths

KeysOf(ps) == {k \in Packages \X Versions : HasEntry(ps, k[1], k[2])}

\* C1: an update of an existing entry with a strictly newer timestamp and a
\* build-id mapping equal to the stored one returns false and leaves the
\* stored entry (commit, timestamp, build ids) and the whole index unchanged.
C1_SameStorePathsSkip ==
    (/\ HadEntry
     /\ Newer
     /\ Stored.store_paths.present
     /\ call.store_paths.present
     /\ call.store_paths.map = Stored.store_paths.map)
    => (/\ ret = FALSE
        /\ pkgs[call.package][call.version] = Stored
        /\ pkgs = before)

C1_Witness ==
    /\ HadEntry
    /\ Newer
    /\ Stored.store_paths.present
    /\ call.store_paths = Stored.store_paths
    /\ DOMAIN call.store_paths.map = Systems
    /\ call.commit_sha # Stored.nixpkgs_commit
    /\ ret = FALSE

\* C2: an update of an existing entry with a timestamp older than or equal
\* to the stored one returns false and leaves the entry and the index
\* unchanged, whatever the stored and candidate build ids are.
C2_OlderOrEqualNoop ==
    (HadEntry /\ ~Newer)
    => (/\ ret = FALSE
        /\ pkgs[call.package][call.version] = Stored
        /\ pkgs = before)

C2_Witness ==
    /\ HadEntry
    /\ InstantOf(call.timestamp) = InstantOf(Stored.commit_timestamp)
    /\ call.commit_sha # Stored.nixpkgs_commit
    /\ Stored.store_paths.present
    /\ call.store_paths.present
    /\ call.store_paths # Stored.store_paths
    /\ ret = FALSE

\* C3: an update with a strictly newer timestamp returns true and replaces
\* the whole entry by the observation when the stored build ids are absent,
\* the candidate build ids are absent, the system sets differ, or the
\* systems agree and an identifier differs.
C3_NewerReplaces ==
    (/\ HadEntry
     /\ Newer
     /\ \/ ~Stored.store_paths.present
        \/ ~call.store_paths.present
        \/ DOMAIN Stored.store_paths.map # DOMAIN call.store_paths.map
        \/ /\ DOMAIN Stored.store_paths.map = DOMAIN call.store_paths.map
           /\ \E s \in DOMAIN call.store_paths.map :
                 Stored.store_paths.map[s] # call.store_paths.map[s])
    => (/\ ret = TRUE
        /\ EntryIs(pkgs[call.package][call.version], call))

C3_Witness ==
    /\ HadEntry
    /\ Newer
    /\ Stored.store_paths.present
    /\ call.store_paths.present
    /\ DOMAIN Stored.store_paths.map # DOMAIN call.store_paths.map
    /\ call.commit_sha # Stored.nixpkgs_commit
    /\ ret = TRUE
    /\ EntryIs(pkgs[call.package][call.version], call)

\* C4: update returns true exactly when the index changed; with no entry
\* for (package, version) it inserts an entry equal to the observation and
\* returns true, also when the package was not in the index.
C4_TrueIffChanged ==
    Called =>
        (/\ ret = (pkgs # before)
         /\ ~HasEntry(before, call.package, call.version) =>
               (/\ ret = TRUE
                /\ HasEntry(pkgs, call.package, call.version)
                /\ EntryIs(pkgs[call.package][call.version], call)))

C4_Witness ==
    /\ Called
    /\ before # <<>>
    /\ call.package \notin DOMAIN before
    /\ call.store_paths.present
    /\ call.store_paths.map # EmptyMap
    /\ ret = TRUE
    /\ EntryIs(pkgs[call.package][call.version], call)

\* C5: an existing entry is replaced only by an observation of its own
\* (package, version) with a strictly greater timestamp whose build ids are
\* not both present and equal to the stored ones; so no stored timestamp
\* decreases, and the index has one entry per observed (package, version).
C5_ReplacedOnlyByNewer ==
    /\ \A k \in KeysOf(before) :
          /\ k \in KeysOf(pkgs)
          /\ InstantOf(pkgs[k[1]][k[2]].commit_timestamp)
                >= InstantOf(before[k[1]][k[2]].commit_timestamp)
          /\ pkgs[k[1]][k[2]] # before[k[1]][k[2]] =>
                (/\ k = <<call.package, call.version>>
                 /\ EntryIs(pkgs[k[1]][k[2]], call)
                 /\ InstantOf(call.timestamp)
                       > InstantOf(before[k[1]][k[2]].commit_timestamp)
                 /\ ~(/\ before[k[1]][k[2]].store_paths.present
                      /\ call.store_paths.present
                      /\ before[k[1]][k[2]].store_paths.map = call.store_paths.map))
    /\ KeysOf(pkgs) = {<<o.package, o.version>> : o \in applied}
    /\ \A p \in DOMAIN pkgs : DOMAIN pkgs[p] # {}

C5_Witness ==
    /\ HadEntry
    /\ pkgs[call.package][call.version] # Stored
    /\ Stored.store_paths.present
    /\ call.store_paths.present
    /\ Cardinality(KeysOf(pkgs)) = 1
    /\ Cardinality(applied) = 2

----------------------------------------------------------------------------
(* Sequences of updates of one (package, version)                          *)

AllCarryStorePaths == \A o \in applied : o.store_paths.present

Latest(o) == \A q \in applied : InstantOf(q.timestamp) <= InstantOf(o.timestamp)

\* C6: after any sequence of updates of one (package, version) that all
\* carry build ids, the stored build ids are those of the observation with
\* the greatest commit timestamp among the observations applied so far.
C6_StoredIsLatestBuild ==
    (Called /\ AllCarryStorePaths)
    => \E o \in applied :
          Latest(o) /\ pkgs["p1"]["24.5.0"].store_paths = o.store_paths

\* C7: after any sequence of updates of one (package, version) that all
\* carry build ids, the stored provenance commit has the smallest commit
\* timestamp among the applied observations whose build ids equal the
\* stored build ids.
C7_StoredIsEarliestProducer ==
    (Called /\ AllCarryStorePaths)
    => \A o \in applied :
          o.store_paths = pkgs["p1"]["24.5.0"].store_paths =>
             InstantOf(pkgs["p1"]["24.5.0"].commit_timestamp) <= InstantOf(o.timestamp)

----------------------------------------------------------------------------
(* Properties of discover_commits_at_intervals                             *)

Returned == pc = "done"

\* C8: the returned commits are in ascending timestamp order, oldest first
\* and the branch head last; every window answer lies inside its window and
\* the head is the newest commit of the branch.
C8_ReturnedAscending ==
    Returned =>
        \A i \in 1 .. Len(commits) : \A j \in 1 .. Len(commits) :
            i < j => commits[i].timestamp <= commits[j].timestamp

\* C9: the returned list holds no commit twice, for every interval,
\* including those shorter than the span of a window.
C9_ReturnedDistinct ==
    Returned =>
        \A i \in 1 .. Len(commits) : \A j \in 1 .. Len(commits) :
            i # j => commits[i].sha # commits[j].sha

StepLimit == IF max_steps.present THEN max_steps.value ELSE DefaultMaxSteps

InResult(sha) == \E i \in 1 .. Len(commits) : commits[i].sha = sha

\* C10: one window request per target time, in order, hence at most
\* max_steps of them (1000 when max_steps is omitted); the branch head is
\* requested once when until is absent, and is then in the result, and never
\* when until is given: until is then the reference time and the head is in
\* the result only if a window returned it.
C10_RequestCounts ==
    /\ window_requests <= StepLimit
    /\ pc \in {"loop", "done"} =>
          /\ Len(target_times) <= StepLimit
          /\ window_requests = step - 1
          /\ window_requests > 0 =>
                last_window = [start |-> target_times[window_requests] - 1,
                               end |-> target_times[window_requests] + 1]
    /\ Returned => window_requests = Len(target_times)
    /\ until.present =>
          /\ head_requests = 0
          /\ pc \in {"loop", "done"} => start_time = until.value
          /\ Returned => \A i \in 1 .. Len(commits) : commits[i].sha \in window_shas
    /\ ~until.present =>
          /\ head_requests = (IF pc = "start" THEN 0 ELSE 1)
          /\ Returned => InResult(branch_head.sha)

C10_Witness ==
    /\ Returned
    /\ ~until.present
    /\ ~max_steps.present
    /\ ~since.present
    /\ window_requests = 1000
    /\ head_requests = 1
    /\ Len(commits) = 2

\* the instants at which the branch has a commit dated within window w
InstantsIn(w) == {t \in history : w.start <= t /\ t <= w.end}

Oldest(ts) == CHOOSE t \in ts : \A u \in ts : t <= u

JustEntered == pc = "loop" /\ step = 1

\* C11: a branch-head request answered with a non-success status ends the
\* discovery with an error and without a commit list: no window is queried
\* and nothing follows.  A window request answered with a non-success status
\* contributes no commit for that window and nothing else: the loop goes on,
\* every remaining window is queried and the discovery returns.
C11_FailedRequests ==
    /\ pc = "error" =>
          /\ ~until.present
          /\ head_requests = 1
          /\ window_requests = 0
          /\ commits = <<>>
          /\ ~ENABLED NextDiscover
    /\ pc \in {"loop", "done"} =>
          /\ \A k \in lost : k <= window_requests
          /\ window_requests \in lost => ~window_commit.present
    /\ Returned => window_requests = Len(target_times)

C11_Witness ==
    /\ Returned
    /\ window_requests = 2
    /\ lost = {1}
    /\ window_commit.present
    /\ Len(commits) = 1

\* C12: a window in which the branch has commits contributes the commit
\* with the smallest timestamp among all the commits of the branch in that
\* window, however many they are; a window without commits contributes
\* nothing.
C12_WindowGivesOldest ==
    (pc \in {"loop", "done"} /\ window_requests > 0) =>
        /\ InstantsIn(last_window) = {} => ~window_commit.present
        /\ window_commit.present =>
              /\ InstantsIn(last_window) # {}
              /\ window_commit.commit.timestamp = Oldest(InstantsIn(last_window))

\* C13: without a lower bound the target times are exactly max_steps
\* instants, reference_time - k * interval for k = 1 .. max_steps, listed
\* oldest first: ascending, consecutive ones exactly one interval apart.
C13_TargetTimesUnbounded ==
    (JustEntered /\ ~since.present) =>
        /\ Len(target_times) = StepLimit
        /\ \A k \in 1 .. StepLimit :
              target_times[StepLimit - k + 1] = start_time - k * step_interval
        /\ \A i \in 1 .. (Len(target_times) - 1) :
              /\ target_times[i + 1] - target_times[i] = step_interval
              /\ target_times[i] < target_times[i + 1]

C13_Witness ==
    /\ JustEntered
    /\ ~since.present
    /\ max_steps = SomeInstant(2)
    /\ step_interval = 3
    /\ target_times = <<start_time - 6, start_time - 3>>

StepTime(k) == start_time - k * step_interval

\* the steps k at which the time is earlier than the lower bound
EarlySteps == {k \in 1 .. StepLimit : StepTime(k) < since.value}

\* C14: with a lower bound the computation stops at the first step whose
\* time is earlier than the bound and returns exactly the steps before it,
\* oldest first; every returned instant is at or after the bound, and the
\* result is empty when max_steps is 0 or the first step is already early.
C14_TargetTimesBounded ==
    (JustEntered /\ since.present) =>
        LET n == IF EarlySteps = {} THEN StepLimit ELSE Oldest(EarlySteps) - 1
        IN /\ Len(target_times) = n
           /\ \A k \in 1 .. n : target_times[n - k + 1] = StepTime(k)
           /\ \A i \in 1 .. Len(target_times) : target_times[i] >= since.value
           /\ (StepLimit = 0 \/ StepTime(1) < since.value) => target_times = <<>>

C14_Witness ==
    /\ JustEntered
    /\ since.present
    /\ StepLimit >= 3
    /\ Len(target_times) = 2
    /\ target_times[1] = since.value

----------------------------------------------------------------------------
(* Properties of the index file and of the indexing run                    *)

\* a save has completed and none is under way
Saved == pc \in {"commit", "complete"} /\ saves > 0

Lines == file.text.lines

\* the index read from the file in the format it was written in
ReadBack == Index_load(file, output_ext, file.text.format)

AllKeys(ps) == UNION {{<<p, v>> : v \in DOMAIN ps[p]} : p \in DOMAIN ps}

\* version order, greatest first, and name order of the names of the model
Descending == <<"24.10.0", "24.9.0", "24.5.0">>

Alphabetical == <<"p1", "p2">>

Precedes(order, a, b) ==
    \E i \in 1 .. Len(order) : \E j \in 1 .. Len(order) :
       i < j /\ order[i] = a /\ order[j] = b

\* lines i < j are version lines of one package
SamePackage(i, j) ==
    /\ i < j
    /\ \A k \in i .. j : Lines[k].kind = "ver"

\* C15: loading a saved file gives the same (package, version) keys with
\* the same commit, timestamp and build ids; in the file the packages are in
\* alphabetical order and the versions of a package in descending order of
\* their numeric components: 24.10.0, then 24.9.0, then 24.5.0.
C15_RoundTrip ==
    Saved =>
        /\ ReadBack.ok
        /\ AllKeys(ReadBack.pkgs) = AllKeys(pkgs)
        /\ \A k \in AllKeys(pkgs) :
              /\ ReadBack.pkgs[k[1]][k[2]].nixpkgs_commit
                    = pkgs[k[1]][k[2]].nixpkgs_commit
              /\ ReadBack.pkgs[k[1]][k[2]].commit_timestamp
                    = pkgs[k[1]][k[2]].commit_timestamp
              /\ ReadBack.pkgs[k[1]][k[2]].store_paths
                    = pkgs[k[1]][k[2]].store_paths
        /\ \A i \in 1 .. Len(Lines) : \A j \in 1 .. Len(Lines) :
              /\ (i < j /\ Lines[i].kind = "pkg" /\ Lines[j].kind = "pkg")
                    => Precedes(Alphabetical, Lines[i].name, Lines[j].name)
              /\ SamePackage(i, j)
                    => Precedes(Descending, Lines[i].name, Lines[j].name)

C15_Witness ==
    /\ pc = "complete"
    /\ saves = 2
    /\ DOMAIN pkgs = {"p1", "p2"}
    /\ DOMAIN pkgs["p1"] = {"24.5.0", "24.9.0", "24.10.0"}
    /\ pkgs["p1"]["24.10.0"].store_paths = SomeStorePaths([s \in {"s1"} |-> "a"])
    /\ ~pkgs["p1"]["24.9.0"].store_paths.present

\* C16: without an explicit format the format follows the file extension
\* when saving as when loading: a file saved to a path and loaded from that
\* path, both without a format, gives the index back, for .json as for .yaml.
C16_FormatByExtension ==
    Saved =>
        /\ file.text.format = (IF output_ext = ".json" THEN "json" ELSE "yml")
        /\ Index_load(file, output_ext, NoFormat).ok
        /\ Index_load(file, output_ext, NoFormat).pkgs = pkgs

\* C17: in a saved file an entry has the store_paths field exactly when the
\* entry of the index has store paths, and the field is never an empty
\* mapping; an entry read from a line without the field has none.
C17_StorePathsField ==
    Saved =>
        \A i \in 1 .. Len(Lines) :
            Lines[i].kind = "ver" =>
                LET entry == pkgs[PkgAbove(Lines, i)][Lines[i].name]
                    back == ReadBack.pkgs[PkgAbove(Lines, i)][Lines[i].name]
                IN /\ ("store_paths" \in DOMAIN Lines[i].entry)
                         <=> entry.store_paths.present
                   /\ "store_paths" \in DOMAIN Lines[i].entry
                         => Lines[i].entry.store_paths # EmptyMap
                   /\ "store_paths" \notin DOMAIN Lines[i].entry
                         => back.store_paths = NoStorePaths

\* C18: the file is at every instant the whole index as the last completed
\* save left it or the whole index that the save under way writes; it is
\* never empty or written in part.
C18_AtomicSave ==
    \/ file = durable
    \/ /\ file.exists
       /\ Lines # <<>>
       /\ ReadBack.ok
       /\ ReadBack.pkgs = pkgs

\* the commits of the run that were checked out, among the first n
Processed(n) == (1 .. n) \ skipped

\* C19: between two commits, after commit_index - 1 of them, the index has
\* been saved once per commit checked out, the file holds the index that is
\* in memory, and that index has entries of the commits checked out so far
\* (and of earlier runs) only: a skipped commit and the commits to come
\* contribute nothing.
C19_SavedBetweenCommits ==
    pc = "commit" =>
        /\ skipped \subseteq 1 .. (commit_index - 1)
        /\ saves = Cardinality(Processed(commit_index - 1))
        /\ saves > 0 => file.exists
        /\ file = durable
        /\ ReadBack.ok
        /\ ReadBack.pkgs = pkgs
        /\ \A k \in AllKeys(pkgs) :
              \/ pkgs[k[1]][k[2]] = EarlierIndex["p1"]["24.9.0"]
              \/ \E n \in Processed(commit_index - 1) :
                    pkgs[k[1]][k[2]].nixpkgs_commit = commits[n].sha
        /\ \A n \in Processed(commit_index - 1) :
              \A j \in 1 .. Len(attributes) : <<n, j>> \in evaluated

C19_Witness ==
    /\ pc = "commit"
    /\ commit_index = 3
    /\ skipped = {1}
    /\ saves = 1
    /\ AllKeys(pkgs) = {<<"p1", "24.9.0">>, <<"p1", "24.10.0">>, <<"p2", "24.5.0">>}

\* every commit was attempted, and every attribute of every checked-out one
AllAttempted ==
    /\ pc = "complete"
    /\ commit_index = Len(commits) + 1
    /\ \A n \in Processed(Len(commits)) :
          \A j \in 1 .. Len(attributes) : <<n, j>> \in evaluated

\* C20: a commit whose fetch or checkout fails is skipped, it alone, with
\* no update; an attribute whose evaluation fails makes no update; a run
\* goes on after either, and attempts every commit and every attribute of
\* every commit it checked out.
C20_FailuresSkip ==
    /\ [][skipped' # skipped =>
             /\ skipped' = skipped \cup {commit_index}
             /\ commit_index' = commit_index + 1
             /\ pc' = "commit"
             /\ pkgs' = pkgs
             /\ evaluated' = evaluated]_vars
    /\ [][(last_eval' # last_eval /\ ~last_eval'.version) =>
             /\ pkgs' = pkgs
             /\ attr_index' = attr_index + 1
             /\ pc' = "evaluate"]_vars
    /\ [](\A n \in skipped : \A k \in AllKeys(pkgs) :
             pkgs[k[1]][k[2]].nixpkgs_commit # commits[n].sha)
    /\ (pc = "commit") ~> AllAttempted

C20_Witness ==
    /\ AllAttempted
    /\ Len(commits) = 2
    /\ skipped = {1}
    /\ last_eval = [commit |-> 2, attribute |-> 2, version |-> FALSE]
    /\ AllKeys(pkgs) = {<<"p2", "24.5.0">>}

----------------------------------------------------------------------------
(* Frame of Index.update_version                                           *)

\* C28: an update for (package, version) leaves the entry of every other
\* (package, version) as it was and removes no key: every key the index had
\* before the call it has after it, and the only key that can be new or
\* hold another entry is the key of the call.
C28_OnlyItsKey ==
    Called =>
        /\ AllKeys(before) \subseteq AllKeys(pkgs)
        /\ AllKeys(pkgs) \subseteq AllKeys(before) \cup {<<call.package, call.version>>}
        /\ \A k \in AllKeys(before) :
              k # <<call.package, call.version>>
                 => pkgs[k[1]][k[2]] = before[k[1]][k[2]]

C28_Witness ==
    /\ nupdates = 2
    /\ ret = TRUE
    /\ AllKeys(before) = {<<"p1", "24.5.0">>}
    /\ <<call.package, call.version>> = <<"p1", "24.10.0">>
    /\ AllKeys(pkgs) = {<<"p1", "24.5.0">>, <<"p1", "24.10.0">>}

----------------------------------------------------------------------------
(* Updates accepted while one commit is processed                          *)

\* C29: while one commit is processed at most one update_version call
\* returns True for a (package, version), however many attributes gave that
\* version; an accepted entry carries the commit and its timestamp, and the
\* updates counted for the commit are no more than the distinct (package,
\* version) pairs observed at it.
C29_OncePerCommit ==
    /\ DOMAIN accepted \subseteq DOMAIN observed
    /\ \A k \in DOMAIN accepted : accepted[k] = 1
    /\ commit_updates = Cardinality(DOMAIN accepted)
    /\ commit_updates <= Cardinality(DOMAIN observed)
    /\ pc = "evaluate" =>
          \A k \in DOMAIN accepted :
             /\ pkgs[k[1]][k[2]].nixpkgs_commit = commits[commit_index].sha
             /\ pkgs[k[1]][k[2]].commit_timestamp
                   = isoformat(commits[commit_index].timestamp)

C29_Witness ==
    /\ pc = "evaluate"
    /\ commit_index = 2
    /\ attr_index = 3
    /\ observed = Counted(Counted(<<>>, <<"p1", "24.5.0">>), <<"p1", "24.5.0">>)
    /\ accepted = Counted(<<>>, <<"p1", "24.5.0">>)
    /\ commit_updates = 1
    /\ pkgs["p1"]["24.5.0"].store_paths = SomeStorePaths(EmptyMap)

----------------------------------------------------------------------------
(* validate.py: validate_index, and the validate command that calls it     *)

\* str.split("@"): the pieces between the "@" characters
RECURSIVE split(_)
split(text) ==
    IF \A i \in 1 .. Len(text) : text[i] # "@" THEN <<text>>
    ELSE LET i == CHOOSE n \in 1 .. Len(text) :
                     text[n] = "@" /\ \A m \in 1 .. (n - 1) : text[m] # "@"
         IN <<SubSeq(text, 1, i - 1)>>
            \o split(SubSeq(text, i + 1, Len(text)))

\* the truth value of an Optional[str]: None and "" are false
TextTruthy(s) == s.present /\ s.text # <<>>

\* a package name or a version as a str
Text(name) == <<name>>

\* the --target values: none, the empty string, a name alone, package@version
\* for a configured and for another package, an empty version, an empty
\* package, and a text with two "@"
Targets ==
    {NoText} \cup
    {SomeText(t) : t \in {<<>>,
                          <<"p1">>,
                          <<"p1", "@", "24.5.0">>,
                          <<"p2", "@", "24.5.0">>,
                          <<"p1", "@">>,
                          <<"@", "24.5.0">>,
                          <<"p1", "@", "24.5.0", "@", "24.5.0">>}}

\* PackageConfig: tests is a list of commands
PackageConfig(tests) == [tests |-> tests]

\* config.pkgs: p1 with a test and p2 not configured, or p1 without tests
\* and p2 with a test
ValidateConfigs ==
    {[p \in {"p1"} |-> PackageConfig(<<"t1">>)],
     [p \in {"p1", "p2"} |->
        IF p = "p1" THEN PackageConfig(<<>>) ELSE PackageConfig(<<"t1">>)]}

\* store_paths of the entries of a loaded index: None, an empty mapping, a
\* path for one system, a path for each of two systems
ValidatedStorePaths ==
    {NoStorePaths,
     SomeStorePaths(EmptyMap),
     SomeStorePaths([sys \in {"s1"} |-> "a"]),
     SomeStorePaths([sys \in {"s1", "s2"} |-> IF sys = "s1" THEN "a" ELSE "b"])}

ValidatedKeys == {<<"p1", "24.5.0">>, <<"p1", "24.10.0">>, <<"p2", "24.5.0">>}

\* Index.load(Path(index)): the indexes of at most MaxEntries entries
ValidateIndexes ==
    {[p \in {k[1] : k \in DOMAIN f} |->
        [v \in {k[2] : k \in {j \in DOMAIN f : j[1] = p}} |->
            VersionEntry(0, isoformat(0), f[<<p, v>>])]] :
     f \in UNION {[K -> ValidatedStorePaths] :
                    K \in {S \in SUBSET ValidatedKeys :
                             Cardinality(S) <= MaxEntries}}}

\* builtins.currentSystem as nix eval prints it
CurrentSystems == {"s1", "s2"}

\* how a subprocess.run call ends: exit status 0, another exit status,
\* TimeoutExpired
RunOutcomes == {"0", "1", "timeout"}

\* a check that timed out is taken as confirming
store_validator_validate_lenient(outcome) == outcome # "1"

\* StorePathValidator.validate: True on exit status 0 only
store_validator_validate(outcome) == outcome = "0"

\* Optional[str] of a message, a store path or a system in a failure
NoValue == [present |-> FALSE, value |-> ""]

SomeValue(x) == [present |-> TRUE, value |-> x]

\* TestValidator.validate with a non-empty tests list: None on exit status
\* 0, else a message
test_validator_validate(outcome) ==
    CASE outcome = "0" -> NoValue
      [] outcome = "1" -> SomeValue("Test failed")
      [] outcome = "timeout" -> SomeValue("Test execution timed out")

ValidationFailure(package, version, store_path, system, error) ==
    [package |-> package, version |-> version, store_path |-> store_path,
     system |-> system, error |-> error]

\* result.has_failures()
has_failures(r) == Len(r.failures) > 0

\* index.pkgs.items(): the packages in the order of the loaded file, which
\* Index.save wrote sorted
ScanNames == sorted_names(DOMAIN pkgs)

\* pkg_index.versions.items() in the order of the loaded file
ScanVersions(pkg_name) == sorted_versions(DOMAIN pkgs[pkg_name])

\* version_entry.store_paths.items(): (system, store path) in key order
SystemOrder == <<"s1", "s2">>

items(map) ==
    LET present == SelectSeq(SystemOrder, LAMBDA sys : sys \in DOMAIN map)
    IN [i \in 1 .. Len(present) |->
          [system |-> present[i], store_path |-> map[present[i]]]]

\* if version_entry.store_paths: None and {} are false
HasStorePaths(entry) ==
    entry.store_paths.present /\ entry.store_paths.map # EmptyMap

InitValidate ==
    /\ DiscoverIdle
    /\ DriverIdle
    /\ pkgs \in ValidateIndexes
    /\ before = <<>>
    /\ call = NoCall
    /\ ret = FALSE
    /\ applied = {}
    /\ nupdates = 0
    /\ target \in Targets
    /\ config_pkgs \in ValidateConfigs
    /\ current_system = ""
    /\ system_calls = 0
    /\ target_pkg = NoText
    /\ target_ver = NoText
    /\ result = NewValidationResult
    /\ pkg_pos = 1
    /\ ver_pos = 0
    /\ inspected = {}
    /\ checks = <<>>
    /\ tests_run = <<>>
    /\ raised = NoError
    /\ exit_status = StillRunning
    /\ phase = "called"

\* what validate_index never assigns: its arguments and everything else
ValidateFrame ==
    UNCHANGED <<indexVars, discoverVars, driverVars, target, config_pkgs>>

\* the current system is known without a call of get_current_system
GetCurrentSystemDeferred ==
    /\ ValidateFrame
    /\ phase = "called"
    /\ current_system' \in CurrentSystems
    /\ phase' = "parse"
    /\ UNCHANGED <<system_calls, target_pkg, target_ver, result, pkg_pos,
                   ver_pos, inspected, checks, tests_run, raised, exit_status>>

\* current_system = get_current_system(): nix eval exits with status 0
GetCurrentSystem ==
    /\ ValidateFrame
    /\ phase = "called"
    /\ current_system' \in CurrentSystems
    /\ system_calls' = system_calls + 1
    /\ phase' = "parse"
    /\ UNCHANGED <<target_pkg, target_ver, result, pkg_pos, ver_pos, inspected,
                   checks, tests_run, raised, exit_status>>

\* get_current_system raises RuntimeError: nix eval exits with another
\* status, times out or cannot be run
GetCurrentSystemRaises ==
    /\ ValidateFrame
    /\ phase = "called"
    /\ system_calls' = system_calls + 1
    /\ raised' = "RuntimeError"
    /\ phase' = "raised"
    /\ UNCHANGED <<current_system, target_pkg, target_ver, result, pkg_pos,
                   ver_pos, inspected, checks, tests_run, exit_status>>

\* result.total_versions: sum(len(pkg.versions) for pkg in index.pkgs.values())
total_versions(ps) == Cardinality(AllKeys(ps))

\* the target is parsed, or there is none; the totals are set
ParseTarget ==
    /\ ValidateFrame
    /\ phase = "parse"
    /\ IF TextTruthy(target)
       THEN /\ Len(split(target.text)) = 2
            /\ target_pkg' = SomeText(split(target.text)[1])
            /\ target_ver' = SomeText(split(target.text)[2])
       ELSE UNCHANGED <<target_pkg, target_ver>>
    /\ result' = [result EXCEPT !.total_packages = Cardinality(DOMAIN pkgs),
                                !.total_versions = total_versions(pkgs)]
    /\ phase' = "scan"
    /\ UNCHANGED <<current_system, system_calls, pkg_pos, ver_pos, inspected,
                   checks, tests_run, raised, exit_status>>

\* raise ValueError("Invalid target format ...")
ParseTargetRaises ==
    /\ ValidateFrame
    /\ phase = "parse"
    /\ TextTruthy(target)
    /\ Len(split(target.text)) # 2
    /\ raised' = "InvalidTarget"
    /\ phase' = "raised"
    /\ UNCHANGED <<current_system, system_calls, target_pkg, target_ver,
                   result, pkg_pos, ver_pos, inspected, checks, tests_run,
                   exit_status>>

\* the loop over index.pkgs.items() is at the top of its body
AtPackage == phase = "scan" /\ ver_pos = 0 /\ pkg_pos <= Len(ScanNames)

\* if target_pkg and pkg_name != target_pkg
OtherPackage(pkg_name) ==
    TextTruthy(target_pkg) /\ Text(pkg_name) # target_pkg.text

\* if target_ver and version_str != target_ver
OtherVersion(version_str) ==
    TextTruthy(target_ver) /\ Text(version_str) # target_ver.text

\* the loop over pkg_index.versions.items() is at the top of its body
AtVersion ==
    /\ phase = "scan"
    /\ ver_pos >= 1
    /\ ver_pos <= Len(ScanVersions(ScanNames[pkg_pos]))

\* the package is not the target's: continue
SkipOtherPackage ==
    /\ ValidateFrame
    /\ AtPackage
    /\ OtherPackage(ScanNames[pkg_pos])
    /\ pkg_pos' = pkg_pos + 1
    /\ UNCHANGED <<current_system, system_calls, target_pkg, target_ver,
                   result, ver_pos, inspected, checks, tests_run, raised,
                   exit_status, phase>>

\* an unconfigured package is taken as one without tests and its versions
\* are scanned
SkipUnconfiguredScans ==
    /\ ValidateFrame
    /\ AtPackage
    /\ ~OtherPackage(ScanNames[pkg_pos])
    /\ ScanNames[pkg_pos] \notin DOMAIN config_pkgs
    /\ result' = [result EXCEPT
                    !.validated_count =
                        @ + Len(ScanVersions(ScanNames[pkg_pos]))]
    /\ pkg_pos' = pkg_pos + 1
    /\ UNCHANGED <<current_system, system_calls, target_pkg, target_ver,
                   ver_pos, inspected, checks, tests_run, raised,
                   exit_status, phase>>

\* config.pkgs.get(pkg_name) is None: warning, continue
SkipUnconfigured ==
    /\ ValidateFrame
    /\ AtPackage
    /\ ~OtherPackage(ScanNames[pkg_pos])
    /\ ScanNames[pkg_pos] \notin DOMAIN config_pkgs
    /\ pkg_pos' = pkg_pos + 1
    /\ UNCHANGED <<current_system, system_calls, target_pkg, target_ver,
                   result, ver_pos, inspected, checks, tests_run, raised,
                   exit_status, phase>>

\* the loop over the versions of the package begins
EnterPackage ==
    /\ ValidateFrame
    /\ AtPackage
    /\ ~OtherPackage(ScanNames[pkg_pos])
    /\ ScanNames[pkg_pos] \in DOMAIN config_pkgs
    /\ ver_pos' = 1
    /\ UNCHANGED <<current_system, system_calls, target_pkg, target_ver,
                   result, pkg_pos, inspected, checks, tests_run, raised,
                   exit_status, phase>>

\* the loop over the versions of the package ends
LeavePackage ==
    /\ ValidateFrame
    /\ phase = "scan"
    /\ ver_pos >= 1
    /\ ver_pos > Len(ScanVersions(ScanNames[pkg_pos]))
    /\ pkg_pos' = pkg_pos + 1
    /\ ver_pos' = 0
    /\ UNCHANGED <<current_system, system_calls, target_pkg, target_ver,
                   result, inspected, checks, tests_run, raised, exit_status,
                   phase>>

\* the version is not the target's: continue
SkipOtherVersion ==
    /\ ValidateFrame
    /\ AtVersion
    /\ OtherVersion(ScanVersions(ScanNames[pkg_pos])[ver_pos])
    /\ ver_pos' = ver_pos + 1
    /\ UNCHANGED <<current_system, system_calls, target_pkg, target_ver,
                   result, pkg_pos, inspected, checks, tests_run, raised,
                   exit_status, phase>>

\* result.add_failure for the store path checks that returned False
StoreFailures(made) ==
    LET failed == SelectSeq(made, LAMBDA c : ~c.ok)
    IN [i \in 1 .. Len(failed) |->
          ValidationFailure(failed[i].package, failed[i].version,
                            SomeValue(failed[i].store_path),
                            SomeValue(failed[i].system),
                            "Store path validation failed")]

\* result.add_failure for the test runs that returned a message
TestFailures(ran) ==
    LET failed == SelectSeq(ran, LAMBDA t : t.test_error.present)
    IN [i \in 1 .. Len(failed) |->
          ValidationFailure(failed[i].package, failed[i].version, NoValue,
                            SomeValue(failed[i].system),
                            failed[i].test_error.value)]

\* the tests are run for the store path of every system
TestedPairsAllSystems(pairs, tests) ==
    IF tests # <<>> THEN pairs ELSE <<>>

\* the (system, store path) pairs test_validator.validate is called for: if
\* pkg_config.tests, those of the current system
TestedPairs(pairs, tests) ==
    IF tests # <<>>
    THEN SelectSeq(pairs, LAMBDA pr : pr.system = current_system)
    ELSE <<>>

\* one entry is inspected: validated_count += 1, a store_validator.validate
\* call for each (system, store path), then the config tests
InspectEntry ==
    /\ ValidateFrame
    /\ AtVersion
    /\ ~OtherVersion(ScanVersions(ScanNames[pkg_pos])[ver_pos])
    /\ \E pkg_name \in {ScanNames[pkg_pos]} :
       \E version_str \in {ScanVersions(pkg_name)[ver_pos]} :
       \E pairs \in {IF HasStorePaths(pkgs[pkg_name][version_str])
                     THEN items(pkgs[pkg_name][version_str].store_paths.map)
                     ELSE <<>>} :
       \E tested \in {TestedPairs(pairs, config_pkgs[pkg_name].tests)} :
       \E check_outcome \in [1 .. Len(pairs) -> RunOutcomes] :
       \E test_outcome \in [1 .. Len(tested) -> RunOutcomes] :
          LET made == [i \in 1 .. Len(pairs) |->
                         [package |-> pkg_name, version |-> version_str,
                          system |-> pairs[i].system,
                          store_path |-> pairs[i].store_path,
                          outcome |-> check_outcome[i],
                          ok |-> store_validator_validate(check_outcome[i])]]
              ran == [i \in 1 .. Len(tested) |->
                        [package |-> pkg_name, version |-> version_str,
                         system |-> tested[i].system,
                         store_path |-> tested[i].store_path,
                         outcome |-> test_outcome[i],
                         test_error |-> test_validator_validate(test_outcome[i])]]
              untestable ==
                 IF /\ config_pkgs[pkg_name].tests # <<>>
                    /\ ~HasStorePaths(pkgs[pkg_name][version_str])
                 THEN <<ValidationFailure(pkg_name, version_str, NoValue, NoValue,
                           "No store paths available for testing")>>
                 ELSE <<>>
          IN /\ checks' = checks \o made
             /\ tests_run' = tests_run \o ran
             /\ result' =
                  [result EXCEPT
                     !.validated_count = @ + 1,
                     !.failures = @ \o StoreFailures(made) \o untestable
                                    \o TestFailures(ran)]
             /\ inspected' = inspected \cup {<<pkg_name, version_str>>}
    /\ ver_pos' = ver_pos + 1
    /\ UNCHANGED <<current_system, system_calls, target_pkg, target_ver,
                   pkg_pos, raised, exit_status, phase>>

\* the loop over index.pkgs.items() has ended
ScanEnded == phase = "scan" /\ ver_pos = 0 /\ pkg_pos > Len(ScanNames)

\* if target and result.validated_count == 0
NothingValidated == TextTruthy(target) /\ result.validated_count = 0

\* raise ValueError("No matching package/version found for target ...")
ScanRaisesNotFound ==
    /\ ValidateFrame
    /\ ScanEnded
    /\ NothingValidated
    /\ raised' = "NotFound"
    /\ phase' = "raised"
    /\ UNCHANGED <<current_system, system_calls, target_pkg, target_ver,
                   result, pkg_pos, ver_pos, inspected, checks, tests_run,
                   exit_status>>

\* a result with failures is thrown instead of returned
ScanRaisesOnFailures ==
    /\ ValidateFrame
    /\ ScanEnded
    /\ ~NothingValidated
    /\ raised' = IF has_failures(result) THEN "ValidationFailed" ELSE raised
    /\ phase' = IF has_failures(result) THEN "raised" ELSE "returned"
    /\ UNCHANGED <<current_system, system_calls, target_pkg, target_ver,
                   result, pkg_pos, ver_pos, inspected, checks, tests_run,
                   exit_status>>

\* return result
ScanReturns ==
    /\ ValidateFrame
    /\ ScanEnded
    /\ ~NothingValidated
    /\ phase' = "returned"
    /\ UNCHANGED <<current_system, system_calls, target_pkg, target_ver,
                   result, pkg_pos, ver_pos, inspected, checks, tests_run,
                   raised, exit_status>>

\* the validate command after validate_index returned: the report is
\* printed, sys.exit(1) if there are failures
CommandExits ==
    /\ ValidateFrame
    /\ phase = "returned"
    /\ exit_status' = IF has_failures(result) THEN 1 ELSE 0
    /\ phase' = "exited"
    /\ UNCHANGED <<current_system, system_calls, target_pkg, target_ver,
                   result, pkg_pos, ver_pos, inspected, checks, tests_run,
                   raised>>

\* the validate command when validate_index raised: nothing catches the
\* exception and the interpreter exits with status 1
CommandAborts ==
    /\ ValidateFrame
    /\ phase = "raised"
    /\ exit_status' = 1
    /\ phase' = "aborted"
    /\ UNCHANGED <<current_system, system_calls, target_pkg, target_ver,
                   result, pkg_pos, ver_pos, inspected, checks, tests_run,
                   raised>>

NextValidate ==
    \/ GetCurrentSystem
    \/ GetCurrentSystemRaises
    \/ ParseTarget
    \/ ParseTargetRaises
    \/ SkipOtherPackage
    \/ SkipUnconfigured
    \/ EnterPackage
    \/ LeavePackage
    \/ SkipOtherVersion
    \/ InspectEntry
    \/ ScanRaisesNotFound
    \/ ScanReturns
    \/ CommandExits
    \/ CommandAborts

SpecValidate == InitValidate /\ [][NextValidate]_vars

(***************************************************************************)
(* C30: validate_index determines the current system exactly once per      *)
(* call, before it parses the target and before it inspects any entry; if  *)
(* the determination fails the call raises and no entry is inspected.      *)
(***************************************************************************)
C30_SystemFirst ==
    /\ system_calls <= 1
    /\ phase = "called" =>
          /\ system_calls = 0
          /\ target_pkg = NoText /\ target_ver = NoText
          /\ result = NewValidationResult
          /\ inspected = {} /\ checks = <<>> /\ tests_run = <<>>
          /\ raised = NoError
    /\ phase \notin {"idle", "called"} => system_calls = 1
    /\ raised = "RuntimeError" =>
          /\ phase \in {"raised", "aborted"}
          /\ target_pkg = NoText /\ target_ver = NoText
          /\ result = NewValidationResult
          /\ inspected = {} /\ checks = <<>> /\ tests_run = <<>>

\* the determination failed in a call whose target is malformed and whose
\* index has entries: RuntimeError, not the target error, and nothing inspected
C30_Witness ==
    /\ phase = "raised"
    /\ raised = "RuntimeError"
    /\ system_calls = 1
    /\ target = SomeText(<<"p1", "@", "24.5.0", "@", "24.5.0">>)
    /\ Cardinality(AllKeys(pkgs)) = 2
    /\ inspected = {}

\* a target was given and target.split("@") does not have exactly two parts
MalformedTarget == target.present /\ Len(split(target.text)) # 2

\* C21: a call whose target does not split into exactly two parts on "@"
\* raises the invalid-target-format error and inspects no entry: no artifact
\* check, no test, nothing counted (stated for the calls in which the current
\* system was determined, which comes before the target is looked at).
C21_InvalidTargetRaises ==
    (MalformedTarget /\ system_calls = 1 /\ raised # "RuntimeError") =>
        /\ phase \in {"parse", "raised", "aborted"}
        /\ phase \in {"raised", "aborted"} => raised = "InvalidTarget"
        /\ inspected = {} /\ checks = <<>> /\ tests_run = <<>>
        /\ result.validated_count = 0

\* a target was given and target.split("@") has exactly two parts
WellFormedTarget == target.present /\ Len(split(target.text)) = 2

\* the entry's package is the target's package and its version the target's
EqualsTarget(k) ==
    /\ Text(k[1]) = split(target.text)[1]
    /\ Text(k[2]) = split(target.text)[2]

\* the call has gone past the parsing of the target
ScanStarted ==
    /\ phase \in {"scan", "returned", "exited", "raised", "aborted"}
    /\ raised \notin {"RuntimeError", "InvalidTarget"}

\* C23: total_packages and total_versions are the counts of the whole index,
\* with or without a target; validated_count is the number of entries
\* inspected; with a target only entries of the target's package and the
\* target's version are inspected, so validated_count is at most 1.
C23_Counts ==
    ScanStarted =>
        /\ result.total_packages = Cardinality(DOMAIN pkgs)
        /\ result.total_versions = Cardinality(AllKeys(pkgs))
        /\ result.validated_count = Cardinality(inspected)
        /\ WellFormedTarget =>
              /\ \A k \in inspected : EqualsTarget(k)
              /\ result.validated_count <= 1

\* no (package, version) of the index is the target's
NoMatch == WellFormedTarget /\ \A k \in AllKeys(pkgs) : ~EqualsTarget(k)

\* C22: a call with a well-formed target that no (package, version) of the
\* index matches raises the not-found error, and only after the scan over
\* the index has completed: it inspects nothing, never returns a result, and
\* raises nothing before the last package has been passed; this holds also
\* when the target's package is in the index and the target's version is not.
C22_NotFoundAfterScan ==
    (NoMatch /\ ScanStarted) =>
        /\ inspected = {}
        /\ phase \in {"scan", "raised", "aborted"}
        /\ phase \in {"raised", "aborted"} =>
              /\ raised = "NotFound"
              /\ pkg_pos > Len(ScanNames)
              /\ ver_pos = 0

\* the scan has ended: validate_index returned or raised the not-found error
Scanned ==
    \/ phase \in {"returned", "exited"}
    \/ phase \in {"raised", "aborted"} /\ raised = "NotFound"

\* C27: a package of the index that the configuration does not have is
\* skipped: none of its entries is inspected, checked, tested, counted or
\* given a failure; with a well-formed target the not-found error is raised
\* exactly when validated_count is 0 at the end of the scan, which is so for
\* a target naming an entry of the index whose package is not configured.
C27_UnconfiguredSkipped ==
    /\ \A k \in inspected : k[1] \in DOMAIN config_pkgs
    /\ \A i \in 1 .. Len(checks) : checks[i].package \in DOMAIN config_pkgs
    /\ \A i \in 1 .. Len(tests_run) :
          tests_run[i].package \in DOMAIN config_pkgs
    /\ \A i \in 1 .. Len(result.failures) :
          result.failures[i].package \in DOMAIN config_pkgs
    /\ result.validated_count =
          Cardinality({k \in inspected : k[1] \in DOMAIN config_pkgs})
    /\ (Scanned /\ WellFormedTarget) =>
          /\ raised = "NotFound" <=> result.validated_count = 0
          /\ (\E k \in AllKeys(pkgs) :
                 EqualsTarget(k) /\ k[1] \notin DOMAIN config_pkgs)
                => raised = "NotFound"

\* the target names the entry of p2, which has store paths and is in the
\* index but not in the configuration: not found, nothing checked
C27_Witness ==
    /\ phase = "raised"
    /\ raised = "NotFound"
    /\ target = SomeText(<<"p2", "@", "24.5.0">>)
    /\ DOMAIN config_pkgs = {"p1"}
    /\ AllKeys(pkgs) = {<<"p1", "24.5.0">>, <<"p2", "24.5.0">>}
    /\ HasStorePaths(pkgs["p2"]["24.5.0"])
    /\ result.validated_count = 0
    /\ checks = <<>>

\* the (system, store path) pairs recorded in the entry
RecordedSystems(k) ==
    IF pkgs[k[1]][k[2]].store_paths.present
    THEN DOMAIN pkgs[k[1]][k[2]].store_paths.map
    ELSE {}

\* the store path checks made for one system of one entry
ChecksOf(k, sys) ==
    {i \in DOMAIN checks :
        /\ checks[i].package = k[1]
        /\ checks[i].version = k[2]
        /\ checks[i].system = sys}

\* the failures of the result that carry the package, version, system and
\* store path of a check
FailuresOf(check) ==
    {j \in DOMAIN result.failures :
        /\ result.failures[j].package = check.package
        /\ result.failures[j].version = check.version
        /\ result.failures[j].system = SomeValue(check.system)
        /\ result.failures[j].store_path = SomeValue(check.store_path)}

\* C24: for every inspected entry and every system with a store path in it
\* exactly one fetchability check is made, of that store path; a check that
\* does not end with exit status 0 adds exactly one failure with the
\* package, version, system and store path, a check that does adds none, and
\* there is no check and no such failure for anything else.
C24_OneCheckPerPair ==
    /\ \A k \in inspected : \A sys \in RecordedSystems(k) :
          /\ Cardinality(ChecksOf(k, sys)) = 1
          /\ \A i \in ChecksOf(k, sys) :
                checks[i].store_path = pkgs[k[1]][k[2]].store_paths.map[sys]
    /\ \A i \in DOMAIN checks :
          /\ <<checks[i].package, checks[i].version>> \in inspected
          /\ checks[i].system
                \in RecordedSystems(<<checks[i].package, checks[i].version>>)
          /\ Cardinality(FailuresOf(checks[i])) =
                (IF checks[i].outcome = "0" THEN 0 ELSE 1)
    /\ \A j \in DOMAIN result.failures :
          result.failures[j].store_path.present =>
              \E i \in DOMAIN checks : j \in FailuresOf(checks[i])

\* an entry with store paths for two systems: the check of the first
\* confirms, the check of the second times out, one failure for the second
C24_Witness ==
    /\ phase = "returned"
    /\ inspected = {<<"p1", "24.5.0">>}
    /\ config_pkgs["p1"].tests = <<>>
    /\ Len(checks) = 2
    /\ checks[1].system = "s1" /\ checks[1].outcome = "0"
    /\ checks[2].system = "s2" /\ checks[2].outcome = "timeout"
    /\ result.failures =
          <<ValidationFailure("p1", "24.5.0", SomeValue("b"), SomeValue("s2"),
                              "Store path validation failed")>>

\* the test runs made for one system of one entry
TestsOf(k, sys) ==
    {i \in DOMAIN tests_run :
        /\ tests_run[i].package = k[1]
        /\ tests_run[i].version = k[2]
        /\ tests_run[i].system = sys}

\* the failures of an entry that come from its tests: those without a
\* store path
TestFailuresOf(k) ==
    {j \in DOMAIN result.failures :
        /\ result.failures[j].package = k[1]
        /\ result.failures[j].version = k[2]
        /\ ~result.failures[j].store_path.present}

\* C25: tests are run for an inspected entry only if the configuration of
\* its package declares tests; with tests declared and no store path in the
\* entry exactly one failure "No store paths available for testing" is
\* recorded and no test is run; otherwise the tests are run once for each
\* recorded system that is the current system and for no other, so an
\* entry with store paths for other systems only has no test failure.
C25_TestsForCurrentSystem ==
    /\ \A i \in DOMAIN tests_run :
          /\ <<tests_run[i].package, tests_run[i].version>> \in inspected
          /\ config_pkgs[tests_run[i].package].tests # <<>>
          /\ tests_run[i].system = current_system
          /\ tests_run[i].system
                \in RecordedSystems(<<tests_run[i].package,
                                      tests_run[i].version>>)
    /\ \A k \in inspected :
          IF config_pkgs[k[1]].tests = <<>>
          THEN TestFailuresOf(k) = {}
          ELSE IF RecordedSystems(k) = {}
          THEN /\ Cardinality(TestFailuresOf(k)) = 1
               /\ \A j \in TestFailuresOf(k) :
                     result.failures[j] =
                        ValidationFailure(k[1], k[2], NoValue, NoValue,
                           "No store paths available for testing")
          ELSE /\ \A sys \in RecordedSystems(k) :
                     Cardinality(TestsOf(k, sys)) =
                        (IF sys = current_system THEN 1 ELSE 0)
               /\ Cardinality(TestFailuresOf(k)) =
                     Cardinality({i \in TestsOf(k, current_system) :
                                     tests_run[i].outcome # "0"})
               /\ current_system \notin RecordedSystems(k)
                     => TestFailuresOf(k) = {}

\* tests declared for p1, the current system is s2: the entry with a store
\* path for s1 only gets its check and no test, the entry without store
\* paths gets the failure
C25_Witness ==
    /\ phase = "returned"
    /\ current_system = "s2"
    /\ config_pkgs["p1"].tests # <<>>
    /\ inspected = {<<"p1", "24.5.0">>, <<"p1", "24.10.0">>}
    /\ RecordedSystems(<<"p1", "24.5.0">>) = {"s1"}
    /\ RecordedSystems(<<"p1", "24.10.0">>) = {}
    /\ Len(checks) = 1 /\ checks[1].outcome = "0"
    /\ tests_run = <<>>
    /\ result.failures =
          <<ValidationFailure("p1", "24.10.0", NoValue, NoValue,
                              "No store paths available for testing")>>

\* the entries the filters of the scan let through: of a configured package,
\* of the target's package and version where a target part is set
InScope ==
    {k \in AllKeys(pkgs) :
        /\ ~OtherPackage(k[1])
        /\ k[1] \in DOMAIN config_pkgs
        /\ ~OtherVersion(k[2])}

\* C26 as stated: failures are collected, never thrown: a failed check or
\* test does not stop the scan, every in-scope entry is inspected, once the
\* scan has started validate_index never raises, and failure reaches the
\* caller only as the non-empty failures list, on which the validate
\* command exits with status 1.
C26_CollectedNeverThrown ==
    /\ ScanStarted => raised = NoError
    /\ phase \in {"returned", "exited"} => inspected = InScope
    /\ phase = "exited" => (exit_status = 1 <=> has_failures(result))

\* C26, amended: failures are collected, never thrown: no failed check or
\* test stops the scan or raises, and a call that returns has inspected
\* every in-scope entry; once the scan has started the one error raised is
\* the not-found error, after the last package, for a target with which no
\* entry was inspected and so no failure collected; failures reach the caller
\* only as the non-empty failures list, on which the command exits with 1.
C26_OnlyNotFoundRaised ==
    /\ ScanStarted => raised \in {NoError, "NotFound"}
    /\ raised = "NotFound" =>
          /\ TextTruthy(target)
          /\ pkg_pos > Len(ScanNames)
          /\ inspected = {} /\ checks = <<>> /\ tests_run = <<>>
          /\ ~has_failures(result)
    /\ has_failures(result) =>
          /\ raised = NoError
          /\ phase \in {"scan", "returned", "exited"}
    /\ phase \in {"returned", "exited"} => inspected = InScope
    /\ phase = "exited" =>
          /\ exit_status = (IF has_failures(result) THEN 1 ELSE 0)
          /\ raised = NoError

\* the check of the first entry failed, the second entry was inspected all
\* the same, the call returned and the command exited with status 1
C26_Witness ==
    /\ phase = "exited"
    /\ exit_status = 1
    /\ raised = NoError
    /\ Cardinality(inspected) = 2
    /\ Len(checks) = 2
    /\ checks[1].outcome = "1"
    /\ checks[2].outcome = "0"
    /\ <<checks[1].package, checks[1].version>>
          # <<checks[2].package, checks[2].version>>
    /\ Len(result.failures) = 1

====
